---- MODULE Spec2Model ----
(***************************************************************************)
(* Model of levx.cpp: the resolution-aware all-pairs edit-distance run.    *)
(*                                                                         *)
(* main() walks the outer index range in chunks; each chunk is an OpenMP   *)
(* "parallel for schedule(dynamic)" over i, whose body walks j in [i, N),  *)
(* picks a window length from j - i, skips the pair when a window would    *)
(* overrun the sequence, and otherwise appends "i,j,distance\n" to the     *)
(* output file through a fresh append-mode ofstream (save_result).         *)
(*                                                                         *)
(* Modelling decisions                                                     *)
(*  - schedule(dynamic): an idle thread takes the lowest iteration not yet *)
(*    handed out (variable next); the implicit barrier at the end of the   *)
(*    region is the guard of ChunkEnd.                                     *)
(*  - save_result: every call owns its ofstream and its buffer; the line   *)
(*    is formatted into that private buffer and reaches the file as one    *)
(*    append when the stream is destroyed (the file is opened with         *)
(*    std::ios::app, so the write lands at the current end of file).       *)
(*  - an exception leaving the parallel region is not caught anywhere:     *)
(*    the throwing thread calls std::terminate and the process aborts;     *)
(*    until the process is gone the other threads may still take steps.    *)
(*  - the passes of the j loop between two calls of save_result touch only *)
(*    the thread's locals and the immutable sequence; they are part of the *)
(*    step that leads to them (TakeIteration, SaveWrite).                  *)
(***************************************************************************)
EXTENDS Integers, Sequences, FiniteSets, TLC

\* ------------------------------------------------------------------ bounds
MaxN == 11          \* longest genome the scheduler is run on
MaxThreads == 2     \* largest value of omp_get_max_threads()
MaxChunk == 2       \* small chunk sizes tried besides the default 10000
MaxStrLen == 4      \* longest operand handed to the edit distance alone
MaxDist == 3        \* small index distances tried besides the threshold values
MaxArgc == 4        \* largest number of command-line arguments tried

\* ------------------------------------------------------------- data model
Threads == 1..MaxThreads

Min(a, b) == IF a <= b THEN a ELSE b

\* a minimum that forgets the substitute-or-match neighbour
Min3NoSubstitute(x, y, z) == Min(x, y)

\* std::min({x, y, z})
Min3(x, y, z) == Min(x, Min(y, z))

\* the middle bucket forgotten: everything above 100000 is RES_1KB
decide_resolution_no_mid(distance) ==
    IF distance <= 100000 THEN "RES_10BP" ELSE "RES_1KB"

\* the thresholds taken as strict: < where the code has <=
decide_resolution_strict(distance) ==
    IF distance < 100000 THEN "RES_10BP"
    ELSE IF distance < 1000000 THEN "RES_100BP"
    ELSE "RES_1KB"

\* enum Resolution and decide_resolution(distance)
decide_resolution(distance) ==
    IF distance <= 100000 THEN "RES_10BP"
    ELSE IF distance <= 1000000 THEN "RES_100BP"
    ELSE "RES_1KB"

\* int segment_size = (resolution == RES_10BP) ? 10 : (resolution == RES_100BP) ? 100 : 1000;
segment_size(resolution) ==
    IF resolution = "RES_10BP" THEN 10
    ELSE IF resolution = "RES_100BP" THEN 100
    ELSE 1000

\* a window taken one position too far to the right
substrShifted(s, pos, n) == SubSeq(s, pos + 2, Min(pos + n + 1, Len(s)))

\* std::string::substr(pos, n) for pos <= size(): the result is cut at the
\* end of the string.
substr(s, pos, n) == SubSeq(s, pos + 1, Min(pos + n, Len(s)))

\* the two branches of the cost exchanged
SubstitutionCostInverted(c1, c2) == IF c1 = c2 THEN 1 ELSE 0

\* int cost = (s1[i - 1] == s2[j - 1]) ? 0 : 1;
SubstitutionCost(c1, c2) == IF c1 = c2 THEN 0 ELSE 1

\* inner loop of levenshtein_distance_optimized (lines 34-37) in pass j of
\* the outer loop: the row current after the cells 1..i have been filled
RECURSIVE FillRow(_, _, _, _, _, _)
FillRow(s1, s2, j, previous, current, i) ==
    IF i = 0 THEN current
    ELSE LET filled == FillRow(s1, s2, j, previous, current, i - 1)
             cost == SubstitutionCost(s1[i], s2[j])
         IN  [filled EXCEPT ![i] = Min3(previous[i] + 1, filled[i - 1] + 1,
                                        previous[i - 1] + cost)]

\* outer loop of levenshtein_distance_optimized (lines 27-39): the vectors
\* <<current, previous>> after j passes, each pass ending with the swap
RECURSIVE LevRows(_, _, _)
LevRows(s1, s2, j) ==
    IF j = 0
    THEN << [i \in 0..Len(s1) |-> 0], [i \in 0..Len(s1) |-> i] >>
    ELSE LET rows == LevRows(s1, s2, j - 1)
             current == rows[1]
             previous == rows[2]
             filled == FillRow(s1, s2, j, previous, [current EXCEPT ![0] = j], Len(s1))
         IN  <<previous, filled>>

\* the function returning current[len1]: after the swap that is the row
\* before the last one
RECURSIVE levenshtein_distance_stale_row(_, _)
levenshtein_distance_stale_row(s1, s2) ==
    IF Len(s1) > Len(s2) THEN levenshtein_distance_stale_row(s2, s1)
    ELSE LevRows(s1, s2, Len(s2))[1][Len(s1)]

\* int levenshtein_distance_optimized(s1, s2): return previous[len1]
RECURSIVE levenshtein_distance_optimized(_, _)
levenshtein_distance_optimized(s1, s2) ==
    IF Len(s1) > Len(s2) THEN levenshtein_distance_optimized(s2, s1)
    ELSE LevRows(s1, s2, Len(s2))[2][Len(s1)]

\* operator<< of a size_t / non-negative int: decimal digits
Digits == <<"0", "1", "2", "3", "4", "5", "6", "7", "8", "9">>

RECURSIVE FormatNat(_)
FormatNat(n) ==
    IF n < 10 THEN <<Digits[n + 1]>>
    ELSE FormatNat(n \div 10) \o <<Digits[(n % 10) + 1]>>

\* out_file << i << "," << j << "," << distance << "\n"
FormatLine(i, j, distance) ==
    FormatNat(i) \o <<",">> \o FormatNat(j) \o <<",">> \o FormatNat(distance) \o <<"\n">>

\* a stream opened without std::ios::app: opening empties the file
OpenTruncate(contents) == <<>>

\* std::ofstream out_file(filename, std::ios::app): opening leaves what the
\* file holds
OpenAppend(contents) == contents

\* the write of a stream opened without std::ios::app: it lands at the
\* position the stream has, over whatever was written there since
FlushAtPosition(contents, pos, buffer) ==
    SubSeq(contents, 1, pos) \o buffer
        \o SubSeq(contents, pos + Len(buffer) + 1, Len(contents))

\* the write of the stream's buffer when the append-mode ofstream is
\* destroyed: it lands at the end of the file, whatever the position the
\* stream had when it was opened
FlushAppend(contents, pos, buffer) == contents \o buffer

\* ------------------------------------------------------------------ state
VARIABLES
    chromosome_data,  \* the loaded sequence (main, line 92)
    max_threads,      \* omp_get_max_threads() (main, line 89)
    chunk_size,       \* size_t chunk_size (main, line 95)
    start,            \* loop variable of the chunk loop
    end,              \* end of the chunk being processed
    next,             \* next iteration the dynamic schedule hands out
    pcm,              \* main thread: "start", "usage", "load_failed", "loop",
                      \* "parallel", "done", "aborted"
    wpc,              \* per thread: "idle", "save", "write", "terminated"
    wi, wj,           \* per thread: loop variables i and j
    wdist,            \* per thread: local variable distance
    wpos,             \* per thread: position of its open stream
    out_file,         \* contents of the file argv[2], a sequence of characters
    emitted,          \* history: the triples whose save_result call returned
    argc,             \* number of command-line arguments (main, line 83)
    fasta,            \* the file argv[1]: whether it opens, and its lines
    exit_code,        \* <<>> while running, <<status>> once main has returned
    calls,            \* history: <<i, j, segment_size, |segment1|, |segment2|>>
                      \* of every call of the edit distance (line 115)
    chunks,           \* history: <<start, end>> of every chunk begun
    fn, fn_args, fn_ret  \* a single call of a pure function and its result

vars == <<chromosome_data, max_threads, chunk_size, start, end, next, pcm,
          wpc, wi, wj, wdist, wpos, out_file, emitted, argc, fasta, exit_code,
          calls, chunks, fn, fn_args, fn_ret>>

sched_vars == <<chromosome_data, max_threads, chunk_size, start, end, next, pcm,
                wpc, wi, wj, wdist, wpos, out_file, emitted, argc, fasta,
                exit_code, calls, chunks>>

\* the command line and the input file: nothing in the program writes them
env_vars == <<argc, fasta>>

fn_vars == <<fn, fn_args, fn_ret>>

data_size == Len(chromosome_data)

\* ----------------------------------------------------------------- inputs
Patterns == { <<"A">>,
              <<"A", "C", "G", "T">>,
              <<"A", "A", "C", "A", "G", "T", "T", "A", "C", "G", "G", "A", "T", "C">> }

Repeat(p, n) == [k \in 1..n |-> p[((k - 1) % Len(p)) + 1]]

Genomes == { Repeat(p, n) : p \in Patterns, n \in 0..MaxN }

ChunkSizes == (1..MaxChunk) \cup {10000}

\* numbers of command-line arguments tried: argv[0] alone up to one
\* argument too many
ArgCounts == 1..MaxArgc

\* ten symbols: the shortest sequence in which a window of 10 fits
ACGTACGTAC == <<"A", "C", "G", "T", "A", "C", "G", "T", "A", "C">>

HeaderLine == <<">", "c", "h", "r", "1">>

\* a FASTA file holding the sequence g on one line after the header line
OneLineFasta(g) == [readable |-> TRUE, lines |-> <<HeaderLine, g>>]

\* the same sequence broken over two lines after k symbols
TwoLineFasta(g, k) ==
    [readable |-> TRUE,
     lines |-> <<HeaderLine, SubSeq(g, 1, k), SubSeq(g, k + 1, Len(g))>>]

FastaFiles ==
    { OneLineFasta(g) : g \in Genomes }
        \cup { TwoLineFasta(ACGTACGTAC, 4) }
        \cup { \* a file that does not open
               [readable |-> FALSE, lines |-> <<>>],
               \* an empty file
               [readable |-> TRUE, lines |-> <<>>],
               \* a file whose first line is sequence data, not a header
               [readable |-> TRUE,
                lines |-> <<Repeat(<<"A", "C", "G", "T">>, MaxN), Repeat(<<"A">>, 10)>>] }

\* the state at the entry of main()
InitWith(contents) ==
    /\ argc \in ArgCounts
    /\ fasta \in FastaFiles
    /\ chromosome_data = <<>>
    /\ max_threads \in 1..MaxThreads
    /\ chunk_size \in ChunkSizes
    /\ start = 0
    /\ end = 0
    /\ next = 0
    /\ pcm = "start"
    /\ exit_code = <<>>
    /\ wpc = [t \in Threads |-> "idle"]
    /\ wi = [t \in Threads |-> 0]
    /\ wj = [t \in Threads |-> 0]
    /\ wdist = [t \in Threads |-> 0]
    /\ wpos = [t \in Threads |-> 0]
    /\ out_file = contents
    /\ emitted = <<>>
    /\ calls = {}
    /\ chunks = <<>>
    /\ fn = "none" /\ fn_args = <<>> /\ fn_ret = <<>>

\* a run whose output file does not exist yet
Init == InitWith(<<>>)

\* -------------------------------------------------------- start of main()
\* the test for too few arguments only
TooFewArgs(n) == n < 3

\* if (argc != 3)
WrongArgCount(n) == n # 3

\* lines 84-87: usage message, return 1
UsageError ==
    /\ pcm = "start"
    /\ WrongArgCount(argc)
    /\ pcm' = "usage"
    /\ exit_code' = <<1>>
    /\ UNCHANGED <<chromosome_data, max_threads, chunk_size, start, end, next,
                   wpc, wi, wj, wdist, wpos, out_file, emitted, calls, chunks,
                   env_vars, fn_vars>>

RECURSIVE Concat(_)
Concat(ls) == IF ls = <<>> THEN <<>> ELSE Head(ls) \o Concat(Tail(ls))

\* load_genome_from_fasta, lines 51-57: the first getline result is thrown
\* away whatever it holds, the remaining lines are concatenated
GenomeOf(lines) == IF lines = <<>> THEN <<>> ELSE Concat(Tail(lines))

\* line 92: the file opens and the sequence is loaded
LoadGenome ==
    /\ pcm = "start"
    /\ ~WrongArgCount(argc)
    /\ fasta.readable
    /\ chromosome_data' = GenomeOf(fasta.lines)
    /\ pcm' = "loop"
    /\ UNCHANGED <<max_threads, chunk_size, start, end, next, exit_code,
                   wpc, wi, wj, wdist, wpos, out_file, emitted, calls, chunks,
                   env_vars, fn_vars>>

\* load_genome_from_fasta, lines 46-49: the file does not open,
\* exit(EXIT_FAILURE)
LoadFails ==
    /\ pcm = "start"
    /\ ~WrongArgCount(argc)
    /\ ~fasta.readable
    /\ pcm' = "load_failed"
    /\ exit_code' = <<1>>
    /\ UNCHANGED <<chromosome_data, max_threads, chunk_size, start, end, next,
                   wpc, wi, wj, wdist, wpos, out_file, emitted, calls, chunks,
                   env_vars, fn_vars>>

\* ---------------------------------------------------------- main thread
\* the end of the chunk without the std::min
ChunkEndIndexNoMin(st, cs, n) == st + cs

\* size_t end = std::min(start + chunk_size, data_size)
ChunkEndIndex(st, cs, n) == Min(st + cs, n)

\* the chunk loop stepping one index too far
NextStartSkip(st, cs) == st + cs + 1

\* start += chunk_size
NextStart(st, cs) == st + cs

\* a region that ends when the iterations are handed out, without waiting
\* for the threads (a nowait loop)
BarrierNoWait == next >= end

\* a region whose barrier counts a thread that threw as arrived
BarrierCountsTerminated ==
    /\ next >= end
    /\ \A t \in 1..max_threads : wpc[t] \in {"idle", "terminated"}

\* end of the parallel region: every iteration handed out and every thread
\* of the team back at the implicit barrier
BarrierReached ==
    /\ next >= end
    /\ \A t \in 1..max_threads : wpc[t] = "idle"

\* for (start = 0; start < data_size; ...) { end = ...; #pragma omp parallel for
ChunkBegin ==
    /\ pcm = "loop"
    /\ start < data_size
    /\ end' = ChunkEndIndex(start, chunk_size, data_size)
    /\ next' = start
    /\ pcm' = "parallel"
    /\ chunks' = Append(chunks, <<start, end'>>)
    /\ UNCHANGED <<chromosome_data, max_threads, chunk_size, start, exit_code,
                   wpc, wi, wj, wdist, wpos, out_file, emitted, calls,
                   env_vars, fn_vars>>

\* the join followed by the release of the part of the sequence the chunk
\* has covered
ChunkEndTrimming ==
    /\ pcm = "parallel"
    /\ BarrierReached
    /\ start' = NextStart(start, chunk_size)
    /\ pcm' = "loop"
    /\ chromosome_data' = SubSeq(chromosome_data, Min(chunk_size, data_size) + 1, data_size)
    /\ UNCHANGED <<max_threads, chunk_size, end, next, exit_code,
                   wpc, wi, wj, wdist, wpos, out_file, emitted, calls, chunks,
                   env_vars, fn_vars>>

\* the join at the end of the parallel region, then start += chunk_size
ChunkEnd ==
    /\ pcm = "parallel"
    /\ BarrierReached
    /\ start' = NextStart(start, chunk_size)
    /\ pcm' = "loop"
    /\ UNCHANGED <<chromosome_data, max_threads, chunk_size, end, next, exit_code,
                   wpc, wi, wj, wdist, wpos, out_file, emitted, calls, chunks,
                   env_vars, fn_vars>>

\* the chunk loop ends: "Processing complete", return 0
Finish ==
    /\ pcm = "loop"
    /\ start >= data_size
    /\ pcm' = "done"
    /\ exit_code' = <<0>>
    /\ UNCHANGED <<chromosome_data, max_threads, chunk_size, start, end, next,
                   wpc, wi, wj, wdist, wpos, out_file, emitted, calls, chunks,
                   env_vars, fn_vars>>

\* ------------------------------------------------------------- team threads
\* an iteration that stays available after a thread has taken it
NextIterationSame(i) == i

\* the schedule handing out the iterations one by one: i++
NextIteration(i) == i + 1

\* the j loop starting at 0 for every i
FirstJZero(i) == 0

\* the j loop starting after the diagonal
FirstJSkipDiagonal(i) == i + 1

\* for (size_t j = i; ...
FirstJ(i) == i

\* the bounds check letting a window overrun the sequence by one symbol
OutOfBoundsByOne(i, j, seg, n) == i + seg > n + 1 \/ j + seg > n + 1

\* the bounds check on the first window only
OutOfBoundsFirstOnly(i, j, seg, n) == i + seg > n

\* if (i + segment_size > data_size || j + segment_size > data_size) continue;
OutOfBounds(i, j, seg, n) == i + seg > n \/ j + seg > n

\* the j loop from j on, through the pairs the bounds check passes over
\* (continue): the value of j at the next call of save_result, or data_size
\* when the loop ends first.  The passes skipped here read the immutable
\* sequence length only and write nothing.
RECURSIVE SkipPairs(_, _, _)
SkipPairs(i, j, n) ==
    IF j >= n THEN n
    ELSE IF OutOfBounds(i, j, segment_size(decide_resolution(j - i)), n)
    THEN SkipPairs(i, j + 1, n)
    ELSE j

\* the j loop of thread t for the outer index i, from j up to its next call
\* of save_result (lines 104-115) or to the end of the iteration.  These
\* are steps of one thread on its own locals and on the immutable sequence;
\* they are taken together with the step that leads to them.
RunLoop(t, i, from) ==
    LET j == SkipPairs(i, from, data_size)
        seg == segment_size(decide_resolution(j - i))
    IN  IF j >= data_size
        THEN \* the j loop is over: the iteration i is finished
             /\ wpc' = [wpc EXCEPT ![t] = "idle"]
             /\ wi' = [wi EXCEPT ![t] = 0]
             /\ wj' = [wj EXCEPT ![t] = 0]
             /\ wdist' = [wdist EXCEPT ![t] = 0]
             /\ UNCHANGED calls
        ELSE /\ wpc' = [wpc EXCEPT ![t] = "save"]
             /\ wi' = [wi EXCEPT ![t] = i]
             /\ wj' = [wj EXCEPT ![t] = j]
             /\ wdist' = [wdist EXCEPT ![t] =
                     levenshtein_distance_optimized(substr(chromosome_data, i, seg),
                                                    substr(chromosome_data, j, seg))]
             /\ calls' = calls \cup { <<i, j, seg,
                                         Len(substr(chromosome_data, i, seg)),
                                         Len(substr(chromosome_data, j, seg))>> }

\* schedule(dynamic): an idle thread takes the next iteration i and runs
\* its j loop up to the first call of save_result
TakeIteration(t) ==
    /\ pcm = "parallel"
    /\ wpc[t] = "idle"
    /\ next < end
    /\ next' = NextIteration(next)
    /\ RunLoop(t, next, FirstJ(next))
    /\ UNCHANGED <<chromosome_data, max_threads, chunk_size, start, end, pcm,
                   exit_code, wpos, out_file, emitted, chunks, env_vars, fn_vars>>

\* save_result, line 76: the append-mode stream opens
SaveOpen(t) ==
    /\ pcm = "parallel"
    /\ wpc[t] = "save"
    /\ wpc' = [wpc EXCEPT ![t] = "write"]
    /\ out_file' = OpenAppend(out_file)
    /\ wpos' = [wpos EXCEPT ![t] = Len(out_file')]
    /\ UNCHANGED <<chromosome_data, max_threads, chunk_size, start, end, next, pcm,
                   exit_code, wi, wj, wdist, emitted, calls, chunks, env_vars, fn_vars>>

\* save_result, lines 77-79: the stream did not open, runtime_error is
\* thrown, nothing catches it and the thread ends in std::terminate
SaveOpenFails(t) ==
    /\ pcm = "parallel"
    /\ wpc[t] = "save"
    /\ wpc' = [wpc EXCEPT ![t] = "terminated"]
    /\ UNCHANGED <<chromosome_data, max_threads, chunk_size, start, end, next, pcm,
                   exit_code, wi, wj, wdist, wpos, out_file, emitted, calls, chunks,
                   env_vars, fn_vars>>

\* save_result, lines 80-81: the line is written and the stream destroyed;
\* back in the j loop, j++, and on to the next call of save_result
SaveWrite(t) ==
    /\ pcm = "parallel"
    /\ wpc[t] = "write"
    /\ out_file' = FlushAppend(out_file, wpos[t], FormatLine(wi[t], wj[t], wdist[t]))
    /\ emitted' = Append(emitted, <<wi[t], wj[t], wdist[t]>>)
    /\ wpos' = [wpos EXCEPT ![t] = 0]
    /\ RunLoop(t, wi[t], wj[t] + 1)
    /\ UNCHANGED <<chromosome_data, max_threads, chunk_size, start, end, next, pcm,
                   exit_code, chunks, env_vars, fn_vars>>

\* std::terminate ends the process
Abort ==
    /\ pcm = "parallel"
    /\ \E t \in 1..max_threads : wpc[t] = "terminated"
    /\ pcm' = "aborted"
    /\ UNCHANGED <<chromosome_data, max_threads, chunk_size, start, end, next,
                   exit_code, wpc, wi, wj, wdist, wpos, out_file, emitted, calls,
                   chunks, env_vars, fn_vars>>

RECURSIVE CatLines(_, _)
CatLines(ls, k) == IF k = 0 THEN <<>> ELSE CatLines(ls, k - 1) \o ls[k]

\* what a run with one thread writes for the sequence g: the lines of the
\* pairs whose windows fit, i ascending and j ascending within i
SequentialRunOutput(g) ==
    LET n == Len(g)
        line(i, j) ==
            LET seg == segment_size(decide_resolution(j - i))
            IN  IF j < i \/ OutOfBounds(i, j, seg, n) THEN <<>>
                ELSE FormatLine(i, j, levenshtein_distance_optimized(substr(g, i, seg),
                                                                     substr(g, j, seg)))
        rows(i) == IF n = 0 THEN <<>>
                   ELSE LET ls == [b \in 1..n |-> line(i, b - 1)]
                        IN  CatLines(ls, n)
    IN  IF n = 0 THEN <<>> ELSE CatLines([a \in 1..n |-> rows(a - 1)], n)

\* a run started on the output file an earlier run over the same input left
InitRerun == InitWith(SequentialRunOutput(GenomeOf(fasta.lines)))

Next ==
    \/ UsageError
    \/ LoadGenome
    \/ LoadFails
    \/ ChunkBegin
    \/ ChunkEnd
    \/ Finish
    \/ Abort
    \/ \E t \in 1..max_threads : TakeIteration(t)
    \/ \E t \in 1..max_threads : SaveOpen(t)
    \/ \E t \in 1..max_threads : SaveOpenFails(t)
    \/ \E t \in 1..max_threads : SaveWrite(t)

Spec == Init /\ [][Next]_vars

\* the process keeps running while it has a step to take: main() and the
\* team threads are ordinary runnable threads, one of which the operating
\* system runs
Runnable ==
    \/ ENABLED (UsageError \/ LoadGenome \/ LoadFails \/ ChunkBegin \/ ChunkEnd \/ Finish \/ Abort)
    \/ \E t \in 1..max_threads :
          \/ ENABLED (SaveOpen(t) \/ SaveOpenFails(t))
          \/ pcm = "parallel" /\ wpc[t] = "write"
          \/ pcm = "parallel" /\ wpc[t] = "idle" /\ next < end

\* the runs in which every sequence long enough for a window is the one
\* without repeats: its windows differ from one another, and neither the
\* control flow nor the schedule depends on the symbols
AperiodicPattern == CHOOSE p \in Patterns : Len(p) > Len(ACGTACGTAC)

InitAperiodic ==
    /\ Init
    /\ LET g == GenomeOf(fasta.lines)
       IN  Len(g) >= Len(ACGTACGTAC) => g = Repeat(AperiodicPattern, Len(g))

SpecAperiodic == InitAperiodic /\ [][Next]_vars

SpecLive == SpecAperiodic /\ ([]<>(~Runnable) \/ []<><<Next>>_vars)

\* the second of two runs with the same input and the same output path
SpecRerun == InitRerun /\ [][Next]_vars

\* ------------------------------------------- the pure functions on their own
\* index distances: small ones and the neighbourhood of both thresholds
Distances == (0..MaxDist) \cup (99999..100001) \cup (999999..1000001)
                 \cup {150001, 500000, 2000000}

RECURSIVE StringsUpTo(_)
StringsUpTo(n) ==
    IF n = 0 THEN { <<>> }
    ELSE LET shorter == StringsUpTo(n - 1)
         IN  shorter \cup { Append(s, c) : s \in shorter, c \in {"A", "T"} }

Strings == StringsUpTo(MaxStrLen)

\* a caller about to apply one of the two pure functions to two inputs
InitFn ==
    /\ chromosome_data = <<>>
    /\ max_threads = 1
    /\ chunk_size = 10000
    /\ start = 0 /\ end = 0 /\ next = 0
    /\ pcm = "loop"
    /\ wpc = [t \in Threads |-> "idle"]
    /\ wi = [t \in Threads |-> 0]
    /\ wj = [t \in Threads |-> 0]
    /\ wdist = [t \in Threads |-> 0]
    /\ wpos = [t \in Threads |-> 0]
    /\ out_file = <<>>
    /\ emitted = <<>>
    /\ argc = 3
    /\ fasta = OneLineFasta(<<>>)
    /\ exit_code = <<>>
    /\ calls = {}
    /\ chunks = <<>>
    /\ fn_ret = <<>>
    /\ \/ fn = "decide_resolution" /\ fn_args \in Distances \X Distances
       \/ fn = "levenshtein_distance_optimized" /\ fn_args \in Strings \X Strings

\* lines 105-106 applied to the next index distance of fn_args
CallDecide ==
    /\ fn = "decide_resolution"
    /\ Len(fn_ret) < Len(fn_args)
    /\ fn_ret' = Append(fn_ret, segment_size(decide_resolution(fn_args[Len(fn_ret) + 1])))
    /\ UNCHANGED <<sched_vars, fn, fn_args>>

\* levenshtein_distance_optimized(a, b)
CallLev ==
    /\ fn = "levenshtein_distance_optimized"
    /\ fn_ret = <<>>
    /\ fn_ret' = <<levenshtein_distance_optimized(fn_args[1], fn_args[2])>>
    /\ UNCHANGED <<sched_vars, fn, fn_args>>

\* levenshtein_distance_optimized(b, a), the same operands in the other order
CallLevSwapped ==
    /\ fn = "levenshtein_distance_optimized"
    /\ Len(fn_ret) = 1
    /\ fn_ret' = Append(fn_ret, levenshtein_distance_optimized(fn_args[2], fn_args[1]))
    /\ UNCHANGED <<sched_vars, fn, fn_args>>

NextFn == CallDecide \/ CallLev \/ CallLevSwapped

SpecFn == InitFn /\ [][NextFn]_vars

\* ------------------------------------------------------------------ claims
\* the run has ended in the successful-completion state
Completed == pcm = "done"

\* a save_result call has thrown
Failed == \E t \in 1..max_threads : wpc[t] = "terminated"

EmittedSet == { emitted[k] : k \in 1..Len(emitted) }

TriplesOf(i, j) == { k \in 1..Len(emitted) : emitted[k][1] = i /\ emitted[k][2] = j }

\* the window length the specification gives for an index distance d
WindowLength(d) == IF d <= 100000 THEN 10 ELSE IF d <= 1000000 THEN 100 ELSE 1000

\* C6: the window length chosen for an index distance d is 10 for
\* d <= 100000, 100 for 100000 < d <= 1000000 and 1000 above, with
\* decide(100000)=10, decide(100001)=100, decide(1000000)=100,
\* decide(1000001)=1000, and it never decreases when d grows.
C6_StepFunction ==
    fn = "decide_resolution" =>
        /\ \A k \in 1..Len(fn_ret) :
              LET d == fn_args[k]
                  r == fn_ret[k]
              IN  /\ r \in {10, 100, 1000}
                  /\ (d <= 100000) => r = 10
                  /\ (d > 100000 /\ d <= 1000000) => r = 100
                  /\ (d > 1000000) => r = 1000
                  /\ (d = 100000) => r = 10
                  /\ (d = 100001) => r = 100
                  /\ (d = 1000000) => r = 100
                  /\ (d = 1000001) => r = 1000
        /\ (Len(fn_ret) = 2 /\ fn_args[1] <= fn_args[2]) => fn_ret[1] <= fn_ret[2]

C6_Witness ==
    /\ fn = "decide_resolution"
    /\ fn_args = <<100000, 100001>>
    /\ fn_ret = <<10, 100>>

\* the textbook edit distance: the cheapest of deleting the head of a,
\* inserting the head of b, and matching or substituting the two heads
RECURSIVE EditDistance(_, _)
EditDistance(a, b) ==
    IF a = <<>> THEN Len(b)
    ELSE IF b = <<>> THEN Len(a)
    ELSE Min3(EditDistance(Tail(a), b) + 1,
              EditDistance(a, Tail(b)) + 1,
              EditDistance(Tail(a), Tail(b)) + (IF Head(a) = Head(b) THEN 0 ELSE 1))

\* C7: levenshtein_distance_optimized(a, b) is the minimum number of
\* insertions, deletions and substitutions turning a into b, for operands of
\* equal or unequal length; an empty operand gives the other operand's
\* length and equal operands give 0.
C7_EditDistance ==
    (fn = "levenshtein_distance_optimized" /\ Len(fn_ret) >= 1) =>
        LET a == fn_args[1]
            b == fn_args[2]
        IN  /\ fn_ret[1] = EditDistance(a, b)
            /\ (a = <<>>) => fn_ret[1] = Len(b)
            /\ (b = <<>>) => fn_ret[1] = Len(a)
            /\ (a = b) => fn_ret[1] = 0

C7_Witness ==
    /\ fn = "levenshtein_distance_optimized"
    /\ fn_args = << <<"A", "A", "A", "A">>, <<"A", "A", "T">> >>
    /\ fn_ret = <<2>>

\* C8: the distance does not depend on the order of the operands,
\* levenshtein_distance_optimized(a, b) = levenshtein_distance_optimized(b, a),
\* also when a is the longer operand.
C8_Symmetry ==
    (fn = "levenshtein_distance_optimized" /\ Len(fn_ret) = 2) => fn_ret[1] = fn_ret[2]

C8_Witness ==
    /\ fn = "levenshtein_distance_optimized"
    /\ Len(fn_args[1]) > Len(fn_args[2])
    /\ fn_args[2] # <<>>
    /\ Len(fn_ret) = 2
    /\ fn_ret[1] > Len(fn_args[1]) - Len(fn_args[2])

\* both windows of the pair (i, j) fit in a sequence of length n
Eligible(i, j, n) ==
    /\ 0 <= i /\ i <= j /\ j < n
    /\ i + WindowLength(j - i) <= n
    /\ j + WindowLength(j - i) <= n

\* C1: at most one triple is ever emitted for a pair, and when the run has
\* completed every pair i <= j < N whose two windows fit has exactly one
\* triple, for every chunk size, thread count and interleaving.
C1_ExactlyOnce ==
    /\ \A i, j \in 0..data_size : Cardinality(TriplesOf(i, j)) <= 1
    /\ Completed =>
          \A i, j \in 0..data_size :
              Eligible(i, j, data_size) => Cardinality(TriplesOf(i, j)) = 1

C1_Witness ==
    /\ Completed
    /\ max_threads = 2
    /\ chunk_size = 1
    /\ Len(emitted) >= 3

\* C2: no triple is ever emitted for a pair with i + window length > N or
\* j + window length > N: save_result is only ever called, and the file
\* only ever changed, for a pair whose two windows fit; passing over a pair
\* raises no error; the run over "ACGTACGTAC" ends with the single triple
\* 0,0,0.
C2_Omission ==
    /\ [](/\ \A k \in 1..Len(emitted) :
                LET len == WindowLength(emitted[k][2] - emitted[k][1])
                IN  /\ emitted[k][1] + len <= data_size
                    /\ emitted[k][2] + len <= data_size
          /\ \A t \in 1..max_threads :
                wpc[t] \in {"save", "write", "terminated"} =>
                    Eligible(wi[t], wj[t], data_size)
          /\ (Completed /\ chromosome_data = ACGTACGTAC) =>
                /\ emitted = << <<0, 0, 0>> >>
                /\ out_file = <<"0", ",", "0", ",", "0", "\n">>)
    /\ [][(out_file' # out_file \/ emitted' # emitted) =>
            \E t \in 1..max_threads :
                /\ wpc[t] = "write"
                /\ Eligible(wi[t], wj[t], data_size)
                /\ emitted' = Append(emitted, <<wi[t], wj[t], wdist[t]>>)]_vars

C2_Witness ==
    /\ Completed
    /\ chromosome_data = ACGTACGTAC
    /\ emitted = << <<0, 0, 0>> >>

\* the chunk an outer index belongs to
ChunkOf(i) == i \div chunk_size

\* C3: chunks run in increasing order with a barrier between them: a thread
\* works only on an index of the chunk in progress, no thread is busy
\* between two chunks, and every triple of chunk k is emitted before any
\* triple of chunk k+1.
C3_Barrier ==
    /\ \A t \in 1..max_threads :
          wpc[t] # "idle" =>
              /\ pcm \in {"parallel", "aborted"}
              /\ start <= wi[t] /\ wi[t] < end
              /\ ChunkOf(wi[t]) = ChunkOf(start)
    /\ \A k \in 1..Len(emitted) :
          /\ ChunkOf(emitted[k][1]) <= ChunkOf(start)
          /\ \A l \in k..Len(emitted) : ChunkOf(emitted[k][1]) <= ChunkOf(emitted[l][1])

C3_Witness ==
    /\ pcm = "parallel"
    /\ max_threads = 2
    /\ chunk_size = 1
    /\ start = 1
    /\ \E t \in 1..max_threads : wpc[t] = "write"
    /\ Len(emitted) = 2

\* reading the output file back: fields between separators, decimal numbers
RECURSIVE Split(_, _)
Split(s, sep) ==
    IF \A k \in 1..Len(s) : s[k] # sep THEN <<s>>
    ELSE LET k == CHOOSE x \in 1..Len(s) : s[x] = sep /\ \A y \in 1..(x - 1) : s[y] # sep
         IN  <<SubSeq(s, 1, k - 1)>> \o Split(SubSeq(s, k + 1, Len(s)), sep)

IsNumber(s) == Len(s) >= 1 /\ \A k \in 1..Len(s) : \E d \in 1..10 : Digits[d] = s[k]

DigitValue(c) == CHOOSE d \in 0..9 : Digits[d + 1] = c

RECURSIVE ParseNat(_)
ParseNat(s) ==
    IF Len(s) = 1 THEN DigitValue(s[1])
    ELSE 10 * ParseNat(SubSeq(s, 1, Len(s) - 1)) + DigitValue(s[Len(s)])

IsTripleLine(line) ==
    LET fields == Split(line, ",")
    IN  Len(fields) = 3 /\ \A k \in 1..3 : IsNumber(fields[k])

ParseLine(line) == LET fields == Split(line, ",") IN [k \in 1..3 |-> ParseNat(fields[k])]

\* C4: whatever the interleaving of concurrent save_result calls, the file
\* consists of whole newline-terminated lines i,j,distance, one for each
\* emitted triple and equal to it: none lost, split or merged.
C4_WholeLines ==
    LET lines == Split(out_file, "\n")
    IN  /\ lines[Len(lines)] = <<>>
        /\ Len(lines) - 1 = Len(emitted)
        /\ \A k \in 1..Len(emitted) :
              /\ IsTripleLine(lines[k])
              /\ ParseLine(lines[k]) = emitted[k]

C4_Witness ==
    /\ max_threads = 2
    /\ wpc[1] = "write" /\ wpc[2] = "write"
    /\ wpos[1] = wpos[2]
    /\ Len(emitted) >= 1

\* what the run with a single chunk covering the whole sequence emits
SingleChunkTriples ==
    { <<i, j, levenshtein_distance_optimized(
                  substr(chromosome_data, i, segment_size(decide_resolution(j - i))),
                  substr(chromosome_data, j, segment_size(decide_resolution(j - i))))>> :
        <<i, j>> \in { p \in (0..data_size) \X (0..data_size) :
                          Eligible(p[1], p[2], data_size) } }

\* C5: the set of triples of a completed run, distances included, is the
\* same for every chunk size (1, sizes that do not divide N, sizes above N):
\* it is the set the single-chunk run emits.
C5_ChunkSizeInvariance ==
    Completed => EmittedSet = SingleChunkTriples

C5_Witness ==
    /\ Completed
    /\ chunk_size = 2
    /\ data_size = 11
    /\ <<1, 1, 0>> \in EmittedSet
    /\ \E d \in 1..10 : <<0, 1, d>> \in EmittedSet

\* C9: every emitted triple with i = j has distance 0, whatever the
\* sequence holds.
C9_SelfDistance ==
    \A k \in 1..Len(emitted) : emitted[k][1] = emitted[k][2] => emitted[k][3] = 0

C9_Witness ==
    /\ \E k \in 1..Len(emitted) : emitted[k] = <<1, 1, 0>>
    /\ chromosome_data[1] # chromosome_data[2]

\* C10: once a save_result call has failed the run is lost: the failing
\* thread never resumes (no retry), the chunk in progress is never
\* completed, no later chunk begins and the run never reaches the
\* successful-completion state.
C10_FatalWriteFailure ==
    /\ [](Failed => pcm \in {"parallel", "aborted"})
    /\ [][Failed =>
            /\ pcm' # "done" /\ pcm' # "loop"
            /\ start' = start /\ end' = end
            /\ \A t \in 1..max_threads :
                  wpc[t] = "terminated" =>
                      /\ wpc'[t] = "terminated"
                      /\ wi'[t] = wi[t] /\ wj'[t] = wj[t]]_vars

C10_Witness ==
    /\ pcm = "aborted"
    /\ max_threads = 2
    /\ Len(emitted) >= 1
    /\ \E t \in 1..max_threads : wpc[t] = "terminated" /\ wi[t] = 1

\* main() has gone past its argument check and past the loader
Computing == pcm \in {"loop", "parallel", "done", "aborted"}

\* C11: with argc # 3 the program ends with a non-zero status before any
\* computation: the input is not loaded, no pair is evaluated, no chunk is
\* begun, no triple is emitted and the output file is left as it was.
C11_UsageError ==
    argc # 3 =>
        /\ pcm \in {"start", "usage"}
        /\ pcm = "start" => exit_code = <<>>
        /\ pcm = "usage" => exit_code # <<>> /\ exit_code[1] # 0
        /\ chromosome_data = <<>>
        /\ calls = {}
        /\ chunks = <<>>
        /\ emitted = <<>>
        /\ out_file = <<>>
        /\ \A t \in Threads : wpc[t] = "idle"

C11_Witness ==
    /\ argc = 4
    /\ pcm = "usage"
    /\ exit_code = <<1>>
    /\ fasta = OneLineFasta(Repeat(<<"A", "C", "G", "T">>, MaxN))

\* the first line of the file is a header line: it starts with the marker ">"
ValidHeader(lines) == lines # <<>> /\ lines[1] # <<>> /\ lines[1][1] = ">"

\* C12: the loader fails fatally, before any pair is evaluated or any triple
\* emitted, when the file does not open and when its first line is not a
\* header line; otherwise it returns the concatenation of the lines after
\* the header line.
C12_LoaderRejectsBadInput ==
    argc = 3 =>
        IF ~fasta.readable \/ ~ValidHeader(fasta.lines)
        THEN /\ pcm \in {"start", "load_failed"}
             /\ pcm = "load_failed" => exit_code # <<>> /\ exit_code[1] # 0
             /\ calls = {}
             /\ emitted = <<>>
        ELSE Computing => chromosome_data = Concat(Tail(fasta.lines))

\* C16: the window length of an evaluated pair is a function of j - i
\* alone, and both operands handed to the edit distance have exactly that
\* length: no window is cut short by the end of the sequence.
C16_WindowLengths ==
    /\ \A c \in calls :
          /\ c[3] = WindowLength(c[2] - c[1])
          /\ c[4] = c[3]
          /\ c[5] = c[3]
    /\ \A c1, c2 \in calls : (c1[2] - c1[1] = c2[2] - c2[1]) => c1[3] = c2[3]

C16_Witness ==
    /\ data_size = 11
    /\ calls = { <<0, 0, 10, 10, 10>>, <<0, 1, 10, 10, 10>>, <<1, 1, 10, 10, 10>> }

\* C17: the sequence is loaded once, before the first chunk, and no later
\* step of the scheduler, of a pair evaluation or of an emission changes
\* its content or its length.
C17_SequenceImmutable ==
    /\ [](Computing => chromosome_data = GenomeOf(fasta.lines))
    /\ [][/\ pcm # "start" => chromosome_data' = chromosome_data
          /\ chromosome_data' # chromosome_data =>
                /\ pcm = "start"
                /\ chunks = <<>> /\ calls = {} /\ emitted = <<>>]_vars

C17_Witness ==
    /\ Completed
    /\ max_threads = 2
    /\ Len(chunks) >= 2
    /\ Len(emitted) = 3
    /\ chromosome_data = Repeat(<<"A", "C", "G", "T">>, 11)

\* C19: every emitted triple (i, j, d) has 0 <= i <= j < N and
\* 0 <= d <= window length for j - i; no triple with j < i is emitted.
C19_TripleRanges ==
    \A k \in 1..Len(emitted) :
        LET i == emitted[k][1]
            j == emitted[k][2]
            d == emitted[k][3]
        IN  /\ 0 <= i /\ i <= j /\ j < data_size
            /\ 0 <= d /\ d <= WindowLength(j - i)

C19_Witness ==
    /\ \E k \in 1..Len(emitted) : emitted[k] = <<0, 1, 2>>
    /\ \E k \in 1..Len(emitted) : emitted[k] = <<1, 1, 0>>

\* a thread is inside the iteration wi[t]
Busy(t) == wpc[t] \in {"save", "write", "terminated"}

\* C20: work is handed out by outer index: an index is taken by one thread,
\* once, and that thread walks its j loop forward, so the triples of one i
\* are emitted in strictly increasing j order in every interleaving (the
\* triples of different i of one chunk come in any relative order).
C20_PerIndexOrder ==
    /\ [](/\ \A k, l \in 1..Len(emitted) :
                (k < l /\ emitted[k][1] = emitted[l][1]) => emitted[k][2] < emitted[l][2]
          /\ \A t1, t2 \in 1..max_threads :
                (t1 # t2 /\ Busy(t1) /\ Busy(t2)) => wi[t1] # wi[t2]
          /\ \A t \in 1..max_threads :
                Busy(t) =>
                    /\ wi[t] < next
                    /\ \A k \in 1..Len(emitted) :
                          emitted[k][1] = wi[t] => emitted[k][2] < wj[t])
    /\ [][/\ next' >= next
          /\ \A t \in 1..max_threads :
                /\ (Busy(t) /\ Busy(t)') => (wi'[t] = wi[t] /\ wj'[t] >= wj[t])
                /\ (~Busy(t) /\ Busy(t)') => (wi'[t] = next /\ next' > next)
          /\ emitted' # emitted =>
                \E t \in 1..max_threads :
                    /\ wpc[t] = "write"
                    /\ emitted' = Append(emitted, <<wi[t], wj[t], wdist[t]>>)]_vars

C20_Witness ==
    /\ Len(emitted) = 3
    /\ emitted[1][1] = 1
    /\ emitted[2] = <<0, 0, 0>>
    /\ emitted[3][1] = 0 /\ emitted[3][2] = 1

\* the rows of the output file: the lines before each newline
Rows(contents) ==
    LET parts == Split(contents, "\n")
    IN  SubSeq(parts, 1, Len(parts) - 1)

\* the file as the first run left it
FirstRunOutput == SequentialRunOutput(GenomeOf(fasta.lines))

\* C13: the run appends to what the output file held when it started and
\* never removes or overwrites it: after the second complete run the file
\* is the rows of the first run followed by the rows of the second, and the
\* row of every pair whose windows fit appears twice.
C13_AppendAcrossRuns ==
    /\ [](/\ pcm = "start" => out_file = FirstRunOutput
          /\ Completed =>
                LET second == Rows(SubSeq(out_file, Len(FirstRunOutput) + 1, Len(out_file)))
                    all == Rows(out_file)
                IN  /\ SubSeq(out_file, 1, Len(FirstRunOutput)) = FirstRunOutput
                    /\ Len(second) = Len(emitted)
                    /\ \A k \in 1..Len(emitted) : ParseLine(second[k]) = emitted[k]
                    /\ \A i, j \in 0..data_size :
                          Eligible(i, j, data_size) =>
                              /\ Cardinality({ k \in 1..Len(all) :
                                     ParseLine(all[k])[1] = i /\ ParseLine(all[k])[2] = j }) = 2
                              /\ \A k, l \in 1..Len(all) :
                                     (/\ ParseLine(all[k])[1] = i /\ ParseLine(all[k])[2] = j
                                      /\ ParseLine(all[l])[1] = i /\ ParseLine(all[l])[2] = j)
                                     => all[k] = all[l])
    /\ [][/\ Len(out_file') >= Len(out_file)
          /\ SubSeq(out_file', 1, Len(out_file)) = out_file]_vars

C13_Witness ==
    /\ Completed
    /\ max_threads = 2
    /\ data_size = 11
    /\ Len(emitted) = 3
    /\ Len(Rows(out_file)) = 6

\* two operands of the same length that differ in exactly one position
OneSubstitution(a, b) ==
    /\ Len(a) = Len(b)
    /\ Cardinality({ k \in 1..Len(a) : a[k] # b[k] }) = 1

\* C14 as stated: index distance 150001 is compared in the FAR bucket with
\* window length 1000, and two windows differing in exactly one symbol give
\* distance 1.
C14_FarBucketAt150001 ==
    /\ fn = "decide_resolution" =>
          \A k \in 1..Len(fn_ret) : fn_args[k] = 150001 => fn_ret[k] = 1000
    /\ (/\ fn = "levenshtein_distance_optimized" /\ Len(fn_ret) >= 1
        /\ OneSubstitution(fn_args[1], fn_args[2])) => fn_ret[1] = 1

\* C14: index distance 150001 lies in the middle bucket and is compared
\* with window length 100 (window length 1000 starts at distance 1000001);
\* two windows differing in exactly one symbol give distance 1.
C14_MidBucketAt150001 ==
    /\ fn = "decide_resolution" =>
          \A k \in 1..Len(fn_ret) :
              /\ fn_args[k] = 150001 => fn_ret[k] = 100
              /\ fn_ret[k] = 1000 => fn_args[k] >= 1000001
    /\ (/\ fn = "levenshtein_distance_optimized" /\ Len(fn_ret) >= 1
        /\ OneSubstitution(fn_args[1], fn_args[2])) => fn_ret[1] = 1

C14_Witness ==
    /\ fn = "decide_resolution"
    /\ fn_args = <<150001, 1000001>>
    /\ fn_ret = <<100, 1000>>

\* the full edit-distance matrix, row i of the matrix for a against b built
\* from the row above it
RECURSIVE MatrixRowUpTo(_, _, _, _, _)
MatrixRowUpTo(a, b, i, up, j) ==
    IF j = 0 THEN <<i>>
    ELSE LET left == MatrixRowUpTo(a, b, i, up, j - 1)
         IN  Append(left, Min3(up[j + 1] + 1, left[j] + 1,
                               up[j] + (IF a[i] = b[j] THEN 0 ELSE 1)))

RECURSIVE MatrixRow(_, _, _)
MatrixRow(a, b, i) ==
    IF i = 0 THEN [k \in 1..(Len(b) + 1) |-> k - 1]
    ELSE LET up == MatrixRow(a, b, i - 1)
         IN  MatrixRowUpTo(a, b, i, up, Len(up) - 1)

FullMatrixDistance(a, b) == MatrixRow(a, b, Len(a))[Len(b) + 1]

\* the window of the window length for j - i that starts at position i
Window(i, j) == SubSeq(chromosome_data, i + 1, i + WindowLength(j - i))

ExactTriple(e) == e[3] = FullMatrixDistance(Window(e[1], e[2]), Window(e[2], e[1]))

\* C15: whatever the interleaving and the number of threads, each emitted
\* triple (i, j, d) carries the edit distance of the two windows of the
\* window length for j - i: the triple emitted last is exact in every
\* state and the triples emitted before it never change, and a completed
\* run holds one exact triple per pair whose windows fit.
C15_ExactContent ==
    /\ [](/\ emitted # <<>> => ExactTriple(emitted[Len(emitted)])
          /\ Completed =>
                /\ \A k \in 1..Len(emitted) : ExactTriple(emitted[k])
                /\ Len(emitted) = Cardinality({ p \in (0..data_size) \X (0..data_size) :
                                                  Eligible(p[1], p[2], data_size) })
                /\ Cardinality(EmittedSet) = Len(emitted))
    /\ [][emitted' # emitted =>
            /\ Len(emitted') = Len(emitted) + 1
            /\ SubSeq(emitted', 1, Len(emitted)) = emitted]_vars

C15_Witness ==
    /\ Completed
    /\ max_threads = 2
    /\ emitted = << <<1, 1, 0>>, <<0, 0, 0>>, <<0, 1, 2>> >>

CeilDiv(n, c) == (n + c - 1) \div c

\* the steps main() still has to take: two per chunk not yet begun, the
\* join of the chunk in progress, the final return
MainWork ==
    CASE pcm = "loop" -> 1 + 2 * CeilDiv(data_size - Min(start, data_size), chunk_size)
      [] pcm = "parallel" ->
             2 + 2 * CeilDiv(data_size - Min(start + chunk_size, data_size), chunk_size)
      [] OTHER -> 0

\* the outer indices no thread has taken yet
Untaken == IF pcm = "parallel" THEN data_size - next ELSE data_size - Min(start, data_size)

\* a bound on the steps thread t still takes inside its iteration
ThreadWork(t) ==
    CASE wpc[t] = "save" -> 2 * (data_size - wj[t])
      [] wpc[t] = "write" -> 2 * (data_size - wj[t]) - 1
      [] OTHER -> 0

RECURSIVE TeamWork(_)
TeamWork(t) == IF t = 0 THEN 0 ELSE TeamWork(t - 1) + ThreadWork(t)

\* a bound on the number of steps left in a run without a failed emission
Rank == MainWork + Untaken * (2 * data_size + 1) + TeamWork(max_threads)

\* a step that is not a failed emission can be taken: the chunk loop goes
\* on or ends, the team joins, or a thread opens the stream, writes its
\* line or takes an iteration
StepWithoutFailure ==
    \/ ENABLED (ChunkBegin \/ ChunkEnd \/ Finish)
    \/ \E t \in 1..max_threads :
          \/ ENABLED SaveOpen(t)
          \/ pcm = "parallel" /\ wpc[t] = "write"
          \/ ENABLED (/\ pcm = "parallel"
                      /\ wpc[t] = "idle"
                      /\ next < end
                      /\ next' = NextIteration(next))

\* C18: without a failed emission the run terminates in the
\* successful-completion state: once the sequence is loaded the run
\* eventually completes unless an emission fails, while it is not complete a
\* step is always possible (no deadlock at the barrier) and every step
\* lowers a bound on the steps left; the chunks begun are [k*c, min((k+1)*c, N)) in order,
\* non-empty and disjoint, and at completion there are ceil(N / c) of them
\* covering [0, N), each index in exactly one; for N = 0 no chunk is begun.
C18_Termination ==
    /\ [](/\ Rank >= 0
          /\ (pcm \in {"loop", "parallel"} /\ ~Failed) => StepWithoutFailure
          /\ \A k \in 1..Len(chunks) :
                /\ chunks[k][1] = (k - 1) * chunk_size
                /\ chunks[k][2] = Min(k * chunk_size, data_size)
                /\ chunks[k][1] < chunks[k][2]
          /\ Completed =>
                /\ exit_code = <<0>>
                /\ Len(chunks) = CeilDiv(data_size, chunk_size)
                /\ \A i \in 0..(data_size - 1) :
                      Cardinality({ k \in 1..Len(chunks) :
                                      chunks[k][1] <= i /\ i < chunks[k][2] }) = 1
                /\ data_size = 0 => chunks = <<>>)
    /\ [][(pcm \in {"loop", "parallel"} /\ ~Failed') => Rank' < Rank]_vars
    /\ (pcm = "loop") ~> (Completed \/ Failed)

C18_Witness ==
    /\ Completed
    /\ max_threads = 2
    /\ chunk_size = 2
    /\ data_size = 11
    /\ Len(chunks) = 6
    /\ Len(emitted) = 3

====
